---- MODULE Spec2Model ----
(***************************************************************************)
(* Model of iam_ic_report.py: the IAM Identity Center permission report.   *)
(*                                                                         *)
(* The script is one sequential thread of control.  Every remote call is   *)
(* a step that either returns the service's answer or raises ClientError   *)
(* (a transport error); which of the two happens is chosen by the          *)
(* environment.  Text is modelled as a sequence of one-character strings,  *)
(* so that strip, rstrip, startswith and join are computed as Python       *)
(* computes them.  A Python value that may be None is modelled as <<>>     *)
(* (None) or <<v>> (the value v).                                          *)
(***************************************************************************)
EXTENDS Integers, Sequences, FiniteSets, TLC

VARIABLES
    pc,                     \* position of the script
    exit_status,            \* process exit status: -1 while running
    exit_reason,            \* why the process ended
    instance_arn,           \* <<>> until discovered, then <<arn>>
    raw_input,              \* the entries of input().split(",")
    account_ids,            \* line 41
    account_details_map,    \* line 100
    details_loaded,         \* TRUE once load_account_details has run
    ws,                     \* the sheet: header row then data rows
    ai,                     \* index of account_id in account_ids
    permission_sets,        \* line 213
    pi,                     \* index of ps_arn in permission_sets
    ps_name,                \* line 223
    aws_managed,            \* line 230
    customer_managed_names, \* line 231
    inline_policy,          \* line 284
    assignments,            \* line 295
    si,                     \* index of a in assignments
    file_saved,             \* TRUE once wb.save has written the file
    save_attempts,          \* number of wb.save calls
    remote_calls,           \* number of remote service calls issued
    faults,                 \* number of remote calls that raised
    ps_list_fault,          \* page on which the last permission-set listing raised, 0 if none
    ws_tag,                 \* per data row: the loop indices <<ai, pi, si>> that wrote it
    ws_obs,                 \* per data row: what the principal look-ups answered
    listed,                 \* per finished assignment listing: <<ai, pi, n>>
    fn                      \* harness for the pure functions (format, CSV load)

vars == <<pc, exit_status, exit_reason, instance_arn, raw_input, account_ids,
          account_details_map, details_loaded, ws, ai, permission_sets, pi,
          ps_name, aws_managed, customer_managed_names, inline_policy,
          assignments, si, file_saved, save_attempts, remote_calls, faults,
          ps_list_fault, ws_tag, ws_obs, listed, fn>>

(***************************************************************************)
(* Bounds                                                                  *)
(***************************************************************************)
MaxAccounts == 2    \* entries typed at the prompt
MaxFaults == 2      \* remote calls that raise in one run
MaxPathLen == 3     \* characters of a generated policy path
MaxCsvRows == 2     \* data rows of a generated metadata file

(***************************************************************************)
(* Text                                                                    *)
(***************************************************************************)
EmptyStr == <<>>
None == <<>>
Some(v) == <<v>>

Range(s) == {s[i] : i \in 1..Len(s)}

Whitespace == {" ", "\n"}

RECURSIVE LStrip(_)
LStrip(s) == IF s # <<>> /\ Head(s) \in Whitespace THEN LStrip(Tail(s)) ELSE s

RECURSIVE RStrip(_)
RStrip(s) ==
    IF s # <<>> /\ s[Len(s)] \in Whitespace
    THEN RStrip(SubSeq(s, 1, Len(s) - 1)) ELSE s

\* str.strip()
Strip(s) == RStrip(LStrip(s))

\* str.rstrip(c): every trailing occurrence of c is removed
RECURSIVE RStripChar(_, _)
RStripChar(s, c) ==
    IF s # <<>> /\ s[Len(s)] = c
    THEN RStripChar(SubSeq(s, 1, Len(s) - 1), c) ELSE s

\* str.startswith(prefix)
StartsWith(s, prefix) ==
    Len(s) >= Len(prefix) /\ SubSeq(s, 1, Len(prefix)) = prefix

\* sep.join(list)
RECURSIVE Join(_, _)
Join(list, sep) ==
    IF list = <<>> THEN EmptyStr
    ELSE IF Len(list) = 1 THEN list[1]
    ELSE list[1] \o sep \o Join(Tail(list), sep)

CommaSpace == <<",", " ">>
Slash == <<"/">>

\* pages of a paginated listing, flattened in order
RECURSIVE Flatten(_)
Flatten(pages) == IF pages = <<>> THEN <<>> ELSE Head(pages) \o Flatten(Tail(pages))

\* dict.get(key, default)
Get(d, key, default) == IF key \in DOMAIN d THEN d[key] ELSE default

\* dict.get(key): None when the key is absent
GetOpt(d, key) == IF key \in DOMAIN d THEN Some(d[key]) ELSE None

\* x or y or "Unknown" over optional strings: None and "" are falsy
Unknown == <<"U", "n", "k", "n", "o", "w", "n">>
Truthy(opt) == opt # None /\ opt[1] # EmptyStr

(***************************************************************************)
(* Customer-managed policy reference formatting, lines 264-274             *)
(***************************************************************************)
FormatRefKeepsTrailing(policy_ref) ==
    LET ref_path == Get(policy_ref, "Path", EmptyStr)
        ref_name == Get(policy_ref, "Name", Unknown)
    IN IF ref_path # EmptyStr /\ ref_path # Slash
       THEN ref_path \o Slash \o ref_name
       ELSE ref_name

FormatRef(policy_ref) ==
    LET ref_path == Get(policy_ref, "Path", EmptyStr)
        ref_name == Get(policy_ref, "Name", Unknown)
    IN IF ref_path # EmptyStr /\ ref_path # Slash
       THEN RStripChar(ref_path, "/") \o Slash \o ref_name
       ELSE ref_name

(***************************************************************************)
(* load_account_details, lines 49-98                                       *)
(***************************************************************************)
HEADER_ACCOUNT_ID == "Account No."
HEADER_ACCOUNT_NAME == "Account ID"
HEADER_ACCOUNT_OWNER == "Account Owner"
HEADER_ACCOUNT_TYPE == "Account Type"

\* "N/A (CSV not found/mapped)"
NotMapped ==
    <<"N", "/", "A", " ", "(", "C", "S", "V", " ", "n", "o", "t", " ",
      "f", "o", "u", "n", "d", "/", "m", "a", "p", "p", "e", "d", ")">>

NoFile == [missing |-> TRUE]

IndexOf(header, h) == CHOOSE j \in 1..Len(header) : header[j] = h

\* csv.DictReader: a record shorter than the header gets None (restval) for
\* the columns it lacks
DictRow(header, cells) ==
    [h \in Range(header) |->
        IF IndexOf(header, h) <= Len(cells)
        THEN Some(cells[IndexOf(header, h)]) ELSE None]

\* row.get(key, ""): the default is used only when the column is not in the header
RowGet(row, key) == IF key \in DOMAIN row THEN row[key] ELSE Some(EmptyStr)

OrNotMapped(s) == IF s # EmptyStr THEN s ELSE NotMapped

MapPut(m, k, v) == [x \in DOMAIN m \cup {k} |-> IF x = k THEN v ELSE m[x]]

\* the loop of lines 74-90; None.strip() raises AttributeError, which line 95
\* catches: the rows read so far are returned
RECURSIVE load_rows(_, _, _, _)
load_rows(header, rows, i, account_map) ==
    IF i > Len(rows) THEN account_map
    ELSE IF rows[i] = <<>> THEN load_rows(header, rows, i + 1, account_map)
    ELSE
      LET row == DictRow(header, rows[i])
          id_cell == RowGet(row, HEADER_ACCOUNT_ID)
          name_cell == RowGet(row, HEADER_ACCOUNT_NAME)
          type_cell == RowGet(row, HEADER_ACCOUNT_TYPE)
          owner_cell == RowGet(row, HEADER_ACCOUNT_OWNER)
      IN IF id_cell = None THEN account_map
         ELSE IF Strip(id_cell[1]) = EmptyStr
              THEN load_rows(header, rows, i + 1, account_map)
         ELSE IF name_cell = None \/ type_cell = None \/ owner_cell = None
              THEN account_map
         ELSE load_rows(header, rows, i + 1,
                MapPut(account_map, Strip(id_cell[1]),
                       [Name |-> OrNotMapped(Strip(name_cell[1])),
                        Type |-> OrNotMapped(Strip(type_cell[1])),
                        Owner |-> OrNotMapped(Strip(owner_cell[1]))]))

load_account_details(csv_file) ==
    IF csv_file = NoFile THEN <<>>
    ELSE IF HEADER_ACCOUNT_ID \notin Range(csv_file.header) THEN <<>>
    ELSE load_rows(csv_file.header, csv_file.rows, 1, <<>>)

(***************************************************************************)
(* json.dumps(json.loads(text), indent=2), line 290, for the documents the *)
(* service holds here: one flat object whose keys and values contain no    *)
(* comma and no colon.                                                     *)
(***************************************************************************)
RECURSIVE Split(_, _)
Split(s, c) ==
    IF \A i \in 1..Len(s) : s[i] # c THEN <<s>>
    ELSE LET k == CHOOSE i \in 1..Len(s) : s[i] = c /\ \A j \in 1..(i - 1) : s[j] # c
         IN <<SubSeq(s, 1, k - 1)>> \o Split(SubSeq(s, k + 1, Len(s)), c)

Newline == <<"\n">>
Indent == <<" ", " ">>

PrettyMember(item) ==
    LET kv == Split(item, ":")
    IN Indent \o Strip(kv[1]) \o <<":", " ">> \o Strip(kv[2])

PrettyJson(text) ==
    LET body == Strip(text)
        inner == Strip(SubSeq(body, 2, Len(body) - 1))
        items == Split(inner, ",")
    IN IF inner = EmptyStr THEN <<"{", "}">>
       ELSE <<"{">> \o Newline
            \o Join([j \in 1..Len(items) |-> PrettyMember(items[j])], <<",">> \o Newline)
            \o Newline \o <<"}">>

(***************************************************************************)
(* The remote service: what each call answers when it does not raise.      *)
(* A listing is a sequence of pages; every page but the last carries a     *)
(* NextToken.                                                              *)
(***************************************************************************)
Acct1 == <<"1", "1", "1">>
Acct2 == <<"2", "2", "2">>

\* sso.list_instances()["Instances"]
Instances ==
    <<[InstanceArn |-> "arn:instance-1", IdentityStoreId |-> "d-1"],
      [InstanceArn |-> "arn:instance-2", IdentityStoreId |-> "d-2"]>>

\* sso.list_permission_sets_provisioned_to_account
PermissionSetPages(account_id) ==
    IF account_id = Acct1 THEN << <<"psA">>, <<"psB">> >>
    ELSE IF account_id = Acct2 THEN << <<"psA">> >>
    ELSE << <<>> >>

\* sso.describe_permission_set(...)["PermissionSet"]
PermissionSet(ps_arn) ==
    IF ps_arn = "psA" THEN [Name |-> <<"A", "d", "m">>] ELSE [Name |-> <<"D", "e", "v">>]

\* "arn:aws:iam::aws:policy"
AwsManagedPrefix == <<"a", "r", "n", ":", "a", "w", "s", ":", "i", "a", "m", ":", ":", "a", "w", "s", ":", "p", "o", "l", "i", "c", "y">>

\* sso.list_managed_policies_in_permission_set
ManagedPolicyPages(ps_arn) ==
    IF ps_arn = "psA"
    THEN << <<[Arn |-> AwsManagedPrefix \o <<"/", "R", "O">>, Name |-> <<"R", "O">>]>>,
            <<[Arn |-> <<"a", "r", "n", ":", "a", "w", "s", ":", "i", "a", "m", ":", ":", "1", ":", "p", "o", "l", "i", "c", "y", "/", "C", "u">>, Name |-> <<"C", "u">>]>> >>
    ELSE << <<>> >>

EngPath == <<"/", "e", "n", "g", "/">>
DevPolicy == <<"D", "e", "v", "P", "o", "l", "i", "c", "y">>
Base == <<"B", "a", "s", "e">>

RefEng == [Path |-> EngPath, Name |-> DevPolicy]
RefRoot == [Path |-> Slash, Name |-> Base]

\* sso.list_customer_managed_policy_references_in_permission_set
PolicyReferencePages(ps_arn) ==
    IF ps_arn = "psA" THEN << <<RefEng>>, <<RefRoot>> >> ELSE << <<>> >>

\* sso.get_inline_policy_for_permission_set
InlinePolicyResponse(ps_arn) ==
    IF ps_arn = "psA" THEN [InlinePolicy |-> <<"{", "\"", "a", "\"", ":", "1", "}">>]
    ELSE [InlinePolicy |-> EmptyStr]

Group1 == <<"g", "1">>
Group2 == <<"g", "2">>
User1 == <<"u", "1">>
User2 == <<"u", "2">>
User3 == <<"u", "3">>
User4 == <<"u", "4">>

\* sso.list_account_assignments
AssignmentPages(account_id, ps_arn) ==
    IF account_id = Acct1 /\ ps_arn = "psA"
    THEN << <<[PrincipalId |-> Group1, PrincipalType |-> "GROUP"]>>,
            <<[PrincipalId |-> User1, PrincipalType |-> "USER"]>> >>
    ELSE IF account_id = Acct1 /\ ps_arn = "psB"
    THEN << <<[PrincipalId |-> User2, PrincipalType |-> "USER"]>> >>
    ELSE IF account_id = Acct2 /\ ps_arn = "psA"
    THEN << <<[PrincipalId |-> Group2, PrincipalType |-> "GROUP"],
              [PrincipalId |-> User4, PrincipalType |-> "USER"]>> >>
    ELSE << <<>> >>

\* identity.describe_group: the groups that exist
Groups == (Group1 :> [DisplayName |-> <<"E", "n", "g">>])

\* identity.list_group_memberships
MembershipPages(group_id) ==
    IF group_id = Group1
    THEN << <<[MemberId |-> [UserId |-> User1]]>>,
            <<[MemberId |-> [UserId |-> User2]], [MemberId |-> [UserId |-> User3]]>> >>
    ELSE << <<>> >>

\* identity.describe_user: the users that exist
Users ==
    (User1 :> [DisplayName |-> <<"A", "l">>, UserName |-> <<"a", "l">>]) @@
    (User2 :> [DisplayName |-> EmptyStr, UserName |-> <<"b", "o">>]) @@
    (User3 :> [UserId |-> User3])

\* the metadata file "AWS Account Owners.csv" of the run
FullHeader ==
    <<HEADER_ACCOUNT_ID, HEADER_ACCOUNT_NAME, HEADER_ACCOUNT_TYPE, HEADER_ACCOUNT_OWNER>>

AccountOwnersCsv ==
    [header |-> FullHeader,
     rows |-> << <<Acct1, <<" ", "P", "r", "o", "d">>, <<"W">>, <<"A", "l">> >> >>]

(***************************************************************************)
(* Pagination: a listing called page after page; fault_page = 0 when no    *)
(* call raises, otherwise the page whose call raises ClientError.          *)
(***************************************************************************)
PagesBefore(pages, fault_page) ==
    IF fault_page = 0 THEN pages ELSE SubSeq(pages, 1, fault_page - 1)

CallsMade(pages, fault_page) == IF fault_page = 0 THEN Len(pages) ELSE fault_page

FaultCount(fault_page) == IF fault_page = 0 THEN 0 ELSE 1

\* [a.strip() for a in input(...).split(",") if a.strip()], line 41
RECURSIVE ParseAccountIds(_)
ParseAccountIds(entries) ==
    IF entries = <<>> THEN <<>>
    ELSE IF Strip(Head(entries)) # EmptyStr
         THEN <<Strip(Head(entries))>> \o ParseAccountIds(Tail(entries))
         ELSE ParseAccountIds(Tail(entries))

\* get_permission_sets_for_account, lines 105-121: the pages fetched before
\* the call that raises are kept in permission_sets and returned
get_permission_sets_for_account(account_id, fault_page) ==
    Flatten(PagesBefore(PermissionSetPages(account_id), fault_page))

\* lines 242-249 over the policies of the fetched pages
RECURSIVE AwsManagedNames(_)
AwsManagedNames(policies) ==
    IF policies = <<>> THEN <<>>
    ELSE (IF StartsWith(Get(Head(policies), "Arn", EmptyStr), AwsManagedPrefix)
          THEN <<Get(Head(policies), "Name", Unknown)>> ELSE <<>>)
         \o AwsManagedNames(Tail(policies))

RECURSIVE CustomerNamesByArn(_)
CustomerNamesByArn(policies) ==
    IF policies = <<>> THEN <<>>
    ELSE (IF StartsWith(Get(Head(policies), "Arn", EmptyStr), AwsManagedPrefix)
          THEN <<>> ELSE <<Get(Head(policies), "Name", Unknown)>>)
         \o CustomerNamesByArn(Tail(policies))

\* u.get("DisplayName") or u.get("UserName") or "Unknown", lines 171 and 324
UserNameFirst(u) ==
    IF Truthy(GetOpt(u, "UserName")) THEN u["UserName"]
    ELSE IF Truthy(GetOpt(u, "DisplayName")) THEN u["DisplayName"]
    ELSE Unknown

ResolveUserName(u) ==
    IF Truthy(GetOpt(u, "DisplayName")) THEN u["DisplayName"]
    ELSE IF Truthy(GetOpt(u, "UserName")) THEN u["UserName"]
    ELSE Unknown

\* identity.describe_user inside try/except: a transport error and a user
\* that does not exist both end in "Unknown"
describe_user_name(user_id, fault) ==
    IF fault \/ user_id \notin DOMAIN Users THEN Unknown
    ELSE ResolveUserName(Users[user_id])

\* "Group ID Not Found: "
GroupNotFoundPrefix == <<"G", "r", "o", "u", "p", " ", "I", "D", " ", "N", "o", "t", " ", "F", "o", "u", "n", "d", ":", " ">>

\* get_group_name, lines 126-134
get_group_name(group_id, fault) ==
    IF fault THEN Unknown
    ELSE IF group_id \notin DOMAIN Groups THEN GroupNotFoundPrefix \o group_id
    ELSE Get(Groups[group_id], "DisplayName", EmptyStr)

\* memberships gathered by lines 152-165
Memberships(group_id, validate_fault, list_fault) ==
    IF validate_fault \/ group_id \notin DOMAIN Groups THEN <<>>
    ELSE Flatten(PagesBefore(MembershipPages(group_id), list_fault))

\* get_users_of_group, lines 139-175
get_users_reversed(group_id, validate_fault, list_fault, member_faults) ==
    LET memberships == Memberships(group_id, validate_fault, list_fault)
        n == Len(memberships)
    IN [j \in 1..n |->
          describe_user_name(memberships[n + 1 - j]["MemberId"]["UserId"],
                             (n + 1 - j) \in member_faults)]

get_users_of_group(group_id, validate_fault, list_fault, member_faults) ==
    LET memberships == Memberships(group_id, validate_fault, list_fault)
    IN [j \in 1..Len(memberships) |->
          describe_user_name(memberships[j]["MemberId"]["UserId"], j \in member_faults)]

\* remote calls issued by get_group_name and get_users_of_group together
GroupCalls(group_id, validate_fault, list_fault) ==
    IF validate_fault \/ group_id \notin DOMAIN Groups THEN 2
    ELSE 2 + CallsMade(MembershipPages(group_id), list_fault)
           + Len(Memberships(group_id, validate_fault, list_fault))

\* the header row, lines 185-198
HeaderRow ==
    <<<<"A", "c", "c", "o", "u", "n", "t", " ", "I", "D">>,
      <<"A", "c", "c", "o", "u", "n", "t", " ", "N", "a", "m", "e">>,
      <<"A", "c", "c", "o", "u", "n", "t", " ", "T", "y", "p", "e">>,
      <<"A", "c", "c", "o", "u", "n", "t", " ", "O", "w", "n", "e", "r">>,
      <<"P", "r", "i", "n", "c", "i", "p", "a", "l", " ", "I", "D">>,
      <<"P", "r", "i", "n", "c", "i", "p", "a", "l", " ", "T", "y", "p", "e">>,
      <<"G", "r", "o", "u", "p", "/", "U", "s", "e", "r", " ", "N", "a", "m", "e">>,
      <<"U", "s", "e", "r", "s", " ", "i", "n", " ", "G", "r", "o", "u", "p", " ", "/", " ", "D", "i", "r", "e", "c", "t", " ", "U", "s", "e", "r">>,
      <<"P", "e", "r", "m", "i", "s", "s", "i", "o", "n", " ", "S", "e", "t", " ", "N", "a", "m", "e">>,
      <<"A", "W", "S", " ", "M", "a", "n", "a", "g", "e", "d", " ", "P", "o", "l", "i", "c", "i", "e", "s">>,
      <<"C", "u", "s", "t", "o", "m", "e", "r", " ", "M", "a", "n", "a", "g", "e", "d", " ", "P", "o", "l", "i", "c", "i", "e", "s">>,
      <<"I", "n", "l", "i", "n", "e", " ", "P", "o", "l", "i", "c", "y", " ", "J", "S", "O", "N">>>>

(***************************************************************************)
(* What is typed at the prompt                                             *)
(***************************************************************************)
InputEntries == {Acct1, <<" ">> \o Acct2 \o <<" ">>, <<" ">>}

RECURSIVE SeqsUpTo(_, _)
SeqsUpTo(S, n) ==
    IF n = 0 THEN {<<>>}
    ELSE LET shorter == SeqsUpTo(S, n - 1)
         IN shorter \cup {Append(q, x) : q \in {r \in shorter : Len(r) = n - 1}, x \in S}

RawInputs == SeqsUpTo(InputEntries, MaxAccounts) \ {<<>>}

NoObs == [name_fault |-> FALSE, validate_fault |-> FALSE, list_fault |-> 0,
          member_faults |-> {}, user_fault |-> FALSE]

Idle == [op |-> "none"]

Init ==
    /\ pc = "discover"
    /\ exit_status = -1
    /\ exit_reason = "running"
    /\ instance_arn = None
    /\ raw_input \in RawInputs
    /\ account_ids = <<>>
    /\ account_details_map = <<>>
    /\ details_loaded = FALSE
    /\ ws = <<>>
    /\ ai = 0
    /\ permission_sets = <<>>
    /\ pi = 0
    /\ ps_name = EmptyStr
    /\ aws_managed = <<>>
    /\ customer_managed_names = <<>>
    /\ inline_policy = EmptyStr
    /\ assignments = <<>>
    /\ si = 0
    /\ file_saved = FALSE
    /\ save_attempts = 0
    /\ remote_calls = 0
    /\ faults = 0
    /\ ps_list_fault = 0
    /\ ws_tag = <<>>
    /\ ws_obs = <<>>
    /\ listed = {}
    /\ fn = Idle

(***************************************************************************)
(* Steps of the script                                                     *)
(***************************************************************************)
\* exit(status), or the interpreter ending the process
Exit(status, reason) ==
    /\ pc' = "exited"
    /\ exit_status' = status
    /\ exit_reason' = reason

Running == UNCHANGED <<exit_status, exit_reason>>

\* end of one iteration of "for ps_arn in permission_sets", line 218
AdvancePS ==
    IF pi < Len(permission_sets)
    THEN pi' = pi + 1 /\ pc' = "describe_ps"
    ELSE pi' = pi /\ pc' = "account"

BoolCount(b) == IF b THEN 1 ELSE 0

\* get_sso_details and the exit(1) around it, lines 17-35
Discover ==
    /\ pc = "discover"
    /\ remote_calls' = remote_calls + 1
    /\ \/ /\ instance_arn' = Some(Instances[1].InstanceArn)
          /\ pc' = "input"
          /\ Running
          /\ UNCHANGED faults
       \/ /\ Exit(1, "NoInstanceFound")
          /\ UNCHANGED <<instance_arn, faults>>
       \/ /\ faults < MaxFaults
          /\ faults' = faults + 1
          /\ Exit(1, "InstanceLookupError")
          /\ UNCHANGED instance_arn
    /\ UNCHANGED <<raw_input, account_ids, account_details_map, details_loaded,
                   ws, ai, permission_sets, pi, ps_name, aws_managed,
                   customer_managed_names, inline_policy, assignments, si,
                   file_saved, save_attempts, ps_list_fault, ws_tag, ws_obs,
                   listed, fn>>

\* lines 40-44
ReadInputLoadsFirst ==
    /\ pc = "input"
    /\ account_ids' = ParseAccountIds(raw_input)
    /\ account_details_map' = load_account_details(AccountOwnersCsv)
    /\ details_loaded' = TRUE
    /\ IF account_ids' = <<>>
       THEN Exit(1, "NoAccountsSpecified")
       ELSE pc' = "load" /\ Running
    /\ UNCHANGED <<instance_arn, raw_input, ws, ai, permission_sets, pi,
                   ps_name, aws_managed, customer_managed_names, inline_policy,
                   assignments, si, file_saved, save_attempts, remote_calls,
                   faults, ps_list_fault, ws_tag, ws_obs, listed, fn>>

ReadInput ==
    /\ pc = "input"
    /\ account_ids' = ParseAccountIds(raw_input)
    /\ IF account_ids' = <<>>
       THEN Exit(1, "NoAccountsSpecified")
       ELSE pc' = "load" /\ Running
    /\ UNCHANGED <<instance_arn, raw_input, account_details_map, details_loaded,
                   ws, ai, permission_sets, pi, ps_name, aws_managed,
                   customer_managed_names, inline_policy, assignments, si,
                   file_saved, save_attempts, remote_calls, faults,
                   ps_list_fault, ws_tag, ws_obs, listed, fn>>

\* line 100
LoadDetails ==
    /\ pc = "load"
    /\ account_details_map' = load_account_details(AccountOwnersCsv)
    /\ details_loaded' = TRUE
    /\ pc' = "sheet"
    /\ UNCHANGED <<exit_status, exit_reason, instance_arn, raw_input,
                   account_ids, ws, ai, permission_sets, pi, ps_name,
                   aws_managed, customer_managed_names, inline_policy,
                   assignments, si, file_saved, save_attempts, remote_calls,
                   faults, ps_list_fault, ws_tag, ws_obs, listed, fn>>

\* lines 180-198
SetupSheet ==
    /\ pc = "sheet"
    /\ ws' = <<HeaderRow>>
    /\ pc' = "account"
    /\ UNCHANGED <<exit_status, exit_reason, instance_arn, raw_input,
                   account_ids, account_details_map, details_loaded, ai,
                   permission_sets, pi, ps_name, aws_managed,
                   customer_managed_names, inline_policy, assignments, si,
                   file_saved, save_attempts, remote_calls, faults,
                   ps_list_fault, ws_tag, ws_obs, listed, fn>>

\* lines 203-216: the next account of the input list
ProcessAccount ==
    /\ pc = "account"
    /\ ai < Len(account_ids)
    /\ LET account_id == account_ids[ai + 1]
           pages == PermissionSetPages(account_id)
       IN \E fault_page \in 0..Len(pages) :
            /\ faults + FaultCount(fault_page) <= MaxFaults
            /\ permission_sets' = get_permission_sets_for_account(account_id, fault_page)
            /\ ps_list_fault' = fault_page
            /\ remote_calls' = remote_calls + CallsMade(pages, fault_page)
            /\ faults' = faults + FaultCount(fault_page)
    /\ ai' = ai + 1
    /\ IF permission_sets' = <<>>
       THEN pc' = "account" /\ pi' = 0
       ELSE pc' = "describe_ps" /\ pi' = 1
    /\ UNCHANGED <<exit_status, exit_reason, instance_arn, raw_input,
                   account_ids, account_details_map, details_loaded, ws,
                   ps_name, aws_managed, customer_managed_names, inline_policy,
                   assignments, si, file_saved, save_attempts, ws_tag, ws_obs,
                   listed, fn>>

\* lines 221-227
DescribePermissionSet ==
    /\ pc = "describe_ps"
    /\ remote_calls' = remote_calls + 1
    /\ \/ /\ ps_name' = PermissionSet(permission_sets[pi])["Name"]
          /\ pc' = "managed"
          /\ UNCHANGED <<pi, faults>>
       \/ /\ faults < MaxFaults
          /\ faults' = faults + 1
          /\ AdvancePS
          /\ UNCHANGED ps_name
    /\ UNCHANGED <<exit_status, exit_reason, instance_arn, raw_input,
                   account_ids, account_details_map, details_loaded, ws, ai,
                   permission_sets, aws_managed, customer_managed_names,
                   inline_policy, assignments, si, file_saved, save_attempts,
                   ps_list_fault, ws_tag, ws_obs, listed, fn>>

\* lines 230-253: no try around the calls, a ClientError ends the process
ListManagedPolicies ==
    /\ pc = "managed"
    /\ LET pages == ManagedPolicyPages(permission_sets[pi])
       IN \E fault_page \in 0..Len(pages) :
            /\ faults + FaultCount(fault_page) <= MaxFaults
            /\ LET policies == Flatten(PagesBefore(pages, fault_page))
               IN /\ aws_managed' = AwsManagedNames(policies)
                  /\ customer_managed_names' = CustomerNamesByArn(policies)
            /\ remote_calls' = remote_calls + CallsMade(pages, fault_page)
            /\ faults' = faults + FaultCount(fault_page)
            /\ IF fault_page = 0
               THEN pc' = "refs" /\ Running
               ELSE Exit(1, "UncaughtClientError")
    /\ UNCHANGED <<instance_arn, raw_input, account_ids, account_details_map,
                   details_loaded, ws, ai, permission_sets, pi, ps_name,
                   inline_policy, assignments, si, file_saved, save_attempts,
                   ps_list_fault, ws_tag, ws_obs, listed, fn>>

\* lines 256-279: no try around the calls either
ListPolicyReferences ==
    /\ pc = "refs"
    /\ LET pages == PolicyReferencePages(permission_sets[pi])
       IN \E fault_page \in 0..Len(pages) :
            /\ faults + FaultCount(fault_page) <= MaxFaults
            /\ LET refs == Flatten(PagesBefore(pages, fault_page))
               IN customer_managed_names' =
                    customer_managed_names \o [j \in 1..Len(refs) |-> FormatRef(refs[j])]
            /\ remote_calls' = remote_calls + CallsMade(pages, fault_page)
            /\ faults' = faults + FaultCount(fault_page)
            /\ IF fault_page = 0
               THEN pc' = "inline" /\ Running
               ELSE Exit(1, "UncaughtClientError")
    /\ UNCHANGED <<instance_arn, raw_input, account_ids, account_details_map,
                   details_loaded, ws, ai, permission_sets, pi, ps_name,
                   aws_managed, inline_policy, assignments, si, file_saved,
                   save_attempts, ps_list_fault, ws_tag, ws_obs, listed, fn>>

\* lines 283-292
GetInlinePolicy ==
    /\ pc = "inline"
    /\ remote_calls' = remote_calls + 1
    /\ \/ /\ LET text == Get(InlinePolicyResponse(permission_sets[pi]),
                             "InlinePolicy", EmptyStr)
             IN inline_policy' = IF text # EmptyStr THEN PrettyJson(text) ELSE text
          /\ UNCHANGED faults
       \/ /\ faults < MaxFaults
          /\ faults' = faults + 1
          /\ inline_policy' = EmptyStr
    /\ pc' = "assignments"
    /\ UNCHANGED <<exit_status, exit_reason, instance_arn, raw_input,
                   account_ids, account_details_map, details_loaded, ws, ai,
                   permission_sets, pi, ps_name, aws_managed,
                   customer_managed_names, assignments, si, file_saved,
                   save_attempts, ps_list_fault, ws_tag, ws_obs, listed, fn>>

\* lines 295-305: no try around the calls
ListAssignments ==
    /\ pc = "assignments"
    /\ LET pages == AssignmentPages(account_ids[ai], permission_sets[pi])
       IN \E fault_page \in 0..Len(pages) :
            /\ faults + FaultCount(fault_page) <= MaxFaults
            /\ assignments' = Flatten(PagesBefore(pages, fault_page))
            /\ remote_calls' = remote_calls + CallsMade(pages, fault_page)
            /\ faults' = faults + FaultCount(fault_page)
            /\ IF fault_page # 0
               THEN /\ Exit(1, "UncaughtClientError")
                    /\ UNCHANGED <<pi, si, listed>>
               ELSE /\ Running
                    /\ listed' = listed \cup {<<ai, pi, Len(assignments')>>}
                    /\ IF assignments' = <<>>
                       THEN AdvancePS /\ si' = 0
                       ELSE pc' = "write" /\ si' = 1 /\ pi' = pi
    /\ UNCHANGED <<instance_arn, raw_input, account_ids, account_details_map,
                   details_loaded, ws, ai, permission_sets, ps_name,
                   aws_managed, customer_managed_names, inline_policy,
                   file_saved, save_attempts, ps_list_fault, ws_tag, ws_obs, fn>>

\* lines 208-211
AccountDetail(account_id, field) ==
    Get(Get(account_details_map, account_id, <<>>), field, NotMapped)

\* the list handed to ws.append, lines 330-343
ReportRow(account_id, a, user_or_group_name, user_list_str) ==
    <<account_id,
      AccountDetail(account_id, "Name"),
      AccountDetail(account_id, "Type"),
      AccountDetail(account_id, "Owner"),
      a["PrincipalId"],
      a["PrincipalType"],
      user_or_group_name,
      user_list_str,
      ps_name,
      Join(aws_managed, CommaSpace),
      Join(customer_managed_names, CommaSpace),
      inline_policy>>

\* end of one iteration of "for a in assignments", line 308
NextAssignment ==
    IF si < Len(assignments)
    THEN si' = si + 1 /\ pc' = "write" /\ pi' = pi
    ELSE si' = si /\ AdvancePS

AppendRowSkipsUnknown(row, obs) ==
    /\ IF row[7] = Unknown
       THEN UNCHANGED <<ws, ws_tag, ws_obs>>
       ELSE /\ ws' = Append(ws, row)
            /\ ws_tag' = Append(ws_tag, <<ai, pi, si>>)
            /\ ws_obs' = Append(ws_obs, obs)
    /\ NextAssignment

AppendRowOnTop(row, obs) ==
    /\ ws' = <<Head(ws), row>> \o Tail(ws)
    /\ ws_tag' = <<<<ai, pi, si>>>> \o ws_tag
    /\ ws_obs' = <<obs>> \o ws_obs
    /\ NextAssignment

\* ws.append, line 330, and the end of the iteration
AppendRow(row, obs) ==
    /\ ws' = Append(ws, row)
    /\ ws_tag' = Append(ws_tag, <<ai, pi, si>>)
    /\ ws_obs' = Append(ws_obs, obs)
    /\ NextAssignment

\* lines 308-343, one assignment
WriteRow ==
    /\ pc = "write"
    /\ LET a == assignments[si]
           principal_id == a["PrincipalId"]
           account_id == account_ids[ai]
       IN \/ /\ a["PrincipalType"] = "GROUP"
             /\ \E name_fault \in BOOLEAN, validate_fault \in BOOLEAN,
                   list_fault \in 0..Len(MembershipPages(principal_id)),
                   member_faults \in SUBSET (1..Len(Flatten(MembershipPages(principal_id)))) :
                  /\ (validate_fault \/ principal_id \notin DOMAIN Groups)
                        => (list_fault = 0 /\ member_faults = {})
                  /\ member_faults \subseteq
                        1..Len(Memberships(principal_id, validate_fault, list_fault))
                  /\ faults' = faults + BoolCount(name_fault) + BoolCount(validate_fault)
                                 + FaultCount(list_fault) + Cardinality(member_faults)
                  /\ faults' <= MaxFaults
                  /\ remote_calls' = remote_calls
                                 + GroupCalls(principal_id, validate_fault, list_fault)
                  /\ AppendRow(
                       ReportRow(account_id, a,
                                 get_group_name(principal_id, name_fault),
                                 Join(get_users_of_group(principal_id, validate_fault,
                                                         list_fault, member_faults),
                                      CommaSpace)),
                       [name_fault |-> name_fault, validate_fault |-> validate_fault,
                        list_fault |-> list_fault, member_faults |-> member_faults,
                        user_fault |-> FALSE])
          \/ /\ a["PrincipalType"] = "USER"
             /\ \E user_fault \in BOOLEAN :
                  /\ faults' = faults + BoolCount(user_fault)
                  /\ faults' <= MaxFaults
                  /\ remote_calls' = remote_calls + 1
                  /\ AppendRow(
                       ReportRow(account_id, a,
                                 describe_user_name(principal_id, user_fault),
                                 describe_user_name(principal_id, user_fault)),
                       [NoObs EXCEPT !.user_fault = user_fault])
    /\ UNCHANGED <<exit_status, exit_reason, instance_arn, raw_input,
                   account_ids, account_details_map, details_loaded, ai,
                   permission_sets, ps_name, aws_managed, customer_managed_names,
                   inline_policy, assignments, file_saved, save_attempts,
                   ps_list_fault, listed, fn>>

SaveInsideLoop ==
    /\ pc = "account"
    /\ save_attempts' = save_attempts + 1
    /\ \E written \in BOOLEAN : file_saved' = written
    /\ IF ai = Len(account_ids)
       THEN Exit(0, "Done")
       ELSE pc' = "account" /\ Running
    /\ UNCHANGED <<instance_arn, raw_input, account_ids, account_details_map,
                   details_loaded, ws, ai, permission_sets, pi, ps_name,
                   aws_managed, customer_managed_names, inline_policy,
                   assignments, si, remote_calls, faults, ps_list_fault,
                   ws_tag, ws_obs, listed, fn>>

\* lines 348-354, reached when the for loop of line 203 is exhausted
Save ==
    /\ pc = "account"
    /\ ai = Len(account_ids)
    /\ save_attempts' = save_attempts + 1
    /\ \E written \in BOOLEAN : file_saved' = written
    /\ Exit(0, "Done")
    /\ UNCHANGED <<instance_arn, raw_input, account_ids, account_details_map,
                   details_loaded, ws, ai, permission_sets, pi, ps_name,
                   aws_managed, customer_managed_names, inline_policy,
                   assignments, si, remote_calls, faults, ps_list_fault,
                   ws_tag, ws_obs, listed, fn>>

Next ==
    \/ Discover
    \/ ReadInput
    \/ LoadDetails
    \/ SetupSheet
    \/ ProcessAccount
    \/ DescribePermissionSet
    \/ ListManagedPolicies
    \/ ListPolicyReferences
    \/ GetInlinePolicy
    \/ ListAssignments
    \/ WriteRow
    \/ Save

Spec == Init /\ [][Next]_vars

(***************************************************************************)
(* The pure functions on generated inputs.  The script is not running:     *)
(* its variables stay as they are before the first step.                   *)
(***************************************************************************)
ScriptIdle ==
    /\ pc = "harness"
    /\ exit_status = -1
    /\ exit_reason = "running"
    /\ instance_arn = None
    /\ raw_input = <<>>
    /\ account_ids = <<>>
    /\ account_details_map = <<>>
    /\ details_loaded = FALSE
    /\ ws = <<>>
    /\ ai = 0
    /\ permission_sets = <<>>
    /\ pi = 0
    /\ ps_name = EmptyStr
    /\ aws_managed = <<>>
    /\ customer_managed_names = <<>>
    /\ inline_policy = EmptyStr
    /\ assignments = <<>>
    /\ si = 0
    /\ file_saved = FALSE
    /\ save_attempts = 0
    /\ remote_calls = 0
    /\ faults = 0
    /\ ps_list_fault = 0
    /\ ws_tag = <<>>
    /\ ws_obs = <<>>
    /\ listed = {}

ScriptUnchanged ==
    UNCHANGED <<pc, exit_status, exit_reason, instance_arn, raw_input,
                account_ids, account_details_map, details_loaded, ws, ai,
                permission_sets, pi, ps_name, aws_managed,
                customer_managed_names, inline_policy, assignments, si,
                file_saved, save_attempts, remote_calls, faults,
                ps_list_fault, ws_tag, ws_obs, listed>>

\* policy references as the service may return them
PathChars == {"/", "e", "n"}
GeneratedPaths == SeqsUpTo(PathChars, MaxPathLen) \cup {EngPath}
GeneratedNames == {DevPolicy, Base}

GeneratedRefs ==
    {[Path |-> p, Name |-> n] : p \in GeneratedPaths, n \in GeneratedNames}
    \cup {[Name |-> n] : n \in GeneratedNames}
    \cup {[Path |-> p] : p \in GeneratedPaths}

InitFormat ==
    /\ ScriptIdle
    /\ \E r \in GeneratedRefs : fn = [op |-> "format", ref |-> r, done |-> FALSE, out |-> EmptyStr]

\* lines 264-274 applied to one reference
FormatStep ==
    /\ fn.op = "format"
    /\ ~fn.done
    /\ fn' = [fn EXCEPT !.done = TRUE, !.out = FormatRef(fn.ref)]
    /\ ScriptUnchanged

NextFormat == FormatStep

SpecFormat == InitFormat /\ [][NextFormat]_vars

\* metadata files: a header and data records, cell by cell
Acct3 == <<"3", "3", "3">>
CsvRecords ==
    {<<Acct1, <<" ", "P", "r", "o", "d", " ">>, <<"W">>, <<"A", "l">> >>,
     <<Acct2, EmptyStr, <<" ">>, <<"B", "o">> >>,
     <<<<" ">>, <<"X">>, <<"W">>, <<"A", "l">> >>,
     <<Acct3>>,
     <<Acct1, <<"Q">> >>,
     <<>>,
     <<<<" ">> \o Acct2 \o <<" ">>, <<"P">>, <<"W">>, <<"A", "l">>, <<"x">> >>}

CsvHeaders ==
    {FullHeader,
     <<HEADER_ACCOUNT_NAME, HEADER_ACCOUNT_OWNER>>,
     <<HEADER_ACCOUNT_ID, HEADER_ACCOUNT_NAME>>,
     <<HEADER_ACCOUNT_NAME, HEADER_ACCOUNT_TYPE, HEADER_ACCOUNT_OWNER, HEADER_ACCOUNT_ID>>}

GeneratedCsvFiles ==
    {NoFile} \cup
    {[header |-> h, rows |-> r] : h \in CsvHeaders, r \in SeqsUpTo(CsvRecords, MaxCsvRows)}

InitCsv ==
    /\ ScriptIdle
    /\ \E c \in GeneratedCsvFiles : fn = [op |-> "load", csv |-> c, done |-> FALSE, out |-> <<>>]

\* load_account_details applied to one file
CsvStep ==
    /\ fn.op = "load"
    /\ ~fn.done
    /\ fn' = [fn EXCEPT !.done = TRUE, !.out = load_account_details(fn.csv)]
    /\ ScriptUnchanged

NextCsv == CsvStep

SpecCsv == InitCsv /\ [][NextCsv]_vars

(***************************************************************************)
(* Properties                                                              *)
(***************************************************************************)
\* columns of the sheet
COL_ACCOUNT_ID == 1
COL_PRINCIPAL_ID == 5
COL_PRINCIPAL_TYPE == 6
COL_GROUP_USER_NAME == 7
COL_USERS == 8
COL_PS_NAME == 9
COL_AWS_MANAGED == 10
COL_CUSTOMER_MANAGED == 11
COL_INLINE == 12

DataRows == 1..Len(ws_tag)
DataRow(k) == ws[k + 1]

InitSucceeded == instance_arn # None /\ account_ids # <<>>

\* C1: once an instance was discovered and the account list is non-empty, a
\* transport error in any remote call of the loop is caught where it occurs:
\* the run still processes every account, reaches the export and exits 0.
C1_PartialFailuresNeverAbort ==
    (InitSucceeded /\ pc = "exited")
        => (exit_status = 0 /\ ai = Len(account_ids) /\ save_attempts = 1)

\* the rows written by one pass over (account at position a, permission set at position p)
RowsOf(a, p) == {k \in DataRows : ws_tag[k][1] = a /\ ws_tag[k][2] = p}

VisitFinished(a, p) ==
    pc = "exited" \/ ai > a \/ (ai = a /\ (pi > p \/ pc = "account"))

PolicyCells(k) ==
    <<DataRow(k)[COL_AWS_MANAGED], DataRow(k)[COL_CUSTOMER_MANAGED], DataRow(k)[COL_INLINE]>>

ListedPermissionSets(a) == Flatten(PermissionSetPages(account_ids[a]))

ListedAssignments(a, p) ==
    Flatten(AssignmentPages(account_ids[a], ListedPermissionSets(a)[p]))

\* C2: for each pass over an (account, permission set) pair whose permission
\* set was described and whose assignment listing returned n >= 1
\* assignments, exactly n rows are written, one per assignment, and all of
\* them carry the same three policy fields, the ones computed before the
\* first row of the pair was written.
C2_RowsPerPair ==
    \A v \in listed :
        v[3] >= 1 =>
          LET rows == RowsOf(v[1], v[2])
          IN /\ Cardinality(rows) <= v[3]
             /\ VisitFinished(v[1], v[2]) => Cardinality(rows) = v[3]
             /\ {ws_tag[k][3] : k \in rows} = 1..Cardinality(rows)
             /\ \A k \in rows :
                   DataRow(k)[COL_PRINCIPAL_ID] =
                       ListedAssignments(v[1], v[2])[ws_tag[k][3]]["PrincipalId"]
             /\ \A k1, k2 \in rows : PolicyCells(k1) = PolicyCells(k2)
             /\ (ai = v[1] /\ pi = v[2] /\ pc = "write") =>
                   \A k \in rows :
                      PolicyCells(k) = <<Join(aws_managed, CommaSpace),
                                         Join(customer_managed_names, CommaSpace),
                                         inline_policy>>

C2_Witness ==
    \E v \in listed :
        /\ v[3] >= 2
        /\ VisitFinished(v[1], v[2])
        /\ Cardinality(RowsOf(v[1], v[2])) = v[3]
        /\ \E k \in RowsOf(v[1], v[2]) : DataRow(k)[COL_INLINE] # EmptyStr

\* C3: when a call of the permission-set listing raises, on whichever page,
\* get_permission_sets_for_account returns the empty list and no row is
\* written for that account.
C3_EmptyOnListingError ==
    ps_list_fault # 0 =>
        /\ permission_sets = <<>>
        /\ \A k \in DataRows : ws_tag[k][1] # ai

\* the path without the slashes at its two ends
StripSlashes(path) ==
    LET lead == IF path # <<>> /\ Head(path) = "/" THEN Tail(path) ELSE path
    IN IF lead # <<>> /\ lead[Len(lead)] = "/" THEN SubSeq(lead, 1, Len(lead) - 1) ELSE lead

FormatDone == fn.op = "format" /\ fn.done

\* C4 as stated: a non-root path gives the path without its leading and
\* trailing slash, "/", the name ("/eng/", "DevPolicy" gives "eng/DevPolicy");
\* a root or empty path gives the bare name.
C4_FormatAsStated ==
    FormatDone =>
        LET path == Get(fn.ref, "Path", EmptyStr)
            name == Get(fn.ref, "Name", Unknown)
        IN IF path = EmptyStr \/ path = Slash
           THEN fn.out = name
           ELSE fn.out = StripSlashes(path) \o Slash \o name

\* C4 amended: a non-root path gives the path with its leading slash kept and
\* its trailing slashes removed, "/", the name ("/eng/", "DevPolicy" gives
\* "/eng/DevPolicy"); a root or empty path gives the bare name ("/", "Base"
\* gives "Base").
C4_FormatKeepsLeadingSlash ==
    FormatDone =>
        LET path == Get(fn.ref, "Path", EmptyStr)
            name == Get(fn.ref, "Name", Unknown)
            out == fn.out
        IN /\ (path = EmptyStr \/ path = Slash) => out = name
           /\ (path # EmptyStr /\ path # Slash) =>
                \E k \in 0..Len(path) :
                   /\ k = 0 \/ path[k] # "/"
                   /\ \A j \in (k + 1)..Len(path) : path[j] = "/"
                   /\ Len(out) = k + 1 + Len(name)
                   /\ SubSeq(out, 1, k) = SubSeq(path, 1, k)
                   /\ out[k + 1] = "/"
                   /\ SubSeq(out, k + 2, Len(out)) = name
           /\ fn.ref = RefEng => out = <<"/", "e", "n", "g", "/", "D", "e", "v", "P", "o", "l", "i", "c", "y">>
           /\ fn.ref = RefRoot => out = Base

C4_Witness == FormatDone /\ fn.ref = RefEng /\ fn.out = Slash \o <<"e", "n", "g", "/", "D", "e", "v", "P", "o", "l", "i", "c", "y">>

\* C5 as stated: a run that ends in the NoAccountsSpecified exit has issued
\* no remote call, loaded no metadata, built no row and written no file.
C5_NoRemoteCallBeforeExit ==
    exit_reason = "NoAccountsSpecified" =>
        /\ exit_status = 1
        /\ remote_calls = 0
        /\ ~details_loaded
        /\ ws = <<>>
        /\ save_attempts = 0 /\ ~file_saved

\* C5 amended: an empty account list (after trimming and discarding empty
\* entries) ends the run with a non-zero status; the only remote call issued
\* by then is the instance discovery, which succeeded; no metadata is
\* loaded, no row is built and no file is written.
C5_OnlyDiscoveryBeforeExit ==
    /\ exit_reason = "NoAccountsSpecified" =>
          /\ pc = "exited" /\ exit_status = 1
          /\ ParseAccountIds(raw_input) = <<>>
          /\ remote_calls = 1 /\ instance_arn # None
          /\ ~details_loaded
          /\ ws = <<>>
          /\ save_attempts = 0 /\ ~file_saved
    /\ (ParseAccountIds(raw_input) = <<>> /\ pc \notin {"discover", "input"}) =>
          (pc = "exited" /\ exit_status = 1)

C5_Witness ==
    /\ exit_reason = "NoAccountsSpecified"
    /\ Len(raw_input) = MaxAccounts
    /\ \E i \in 1..Len(raw_input) : raw_input[i] # EmptyStr

\* the display name the service holds for a user
DisplayNameOf(user_id) ==
    IF user_id \notin DOMAIN Users THEN Unknown
    ELSE LET u == Users[user_id]
         IN IF "DisplayName" \in DOMAIN u /\ u["DisplayName"] # EmptyStr THEN u["DisplayName"]
            ELSE IF "UserName" \in DOMAIN u /\ u["UserName"] # EmptyStr THEN u["UserName"]
            ELSE Unknown

MembersOf(group_id) == Flatten(MembershipPages(group_id))

ExpectedMemberNames(group_id, failed) ==
    [j \in 1..Len(MembersOf(group_id)) |->
        IF j \in failed THEN Unknown
        ELSE DisplayNameOf(MembersOf(group_id)[j]["MemberId"]["UserId"])]

\* C6: for a GROUP assignment whose group exists (both describe_group
\* look-ups answer) and whose membership listing returns m1..mk over all
\* pages, "Users in Group / Direct User" is the members' names joined with
\* ", " in listing order, each DisplayName, else UserName, else "Unknown"
\* (also "Unknown" when that member's look-up fails), and "Group/User Name"
\* is the group's display name.
C6_GroupRow ==
    \A k \in DataRows :
        LET row == DataRow(k)
            o == ws_obs[k]
            g == row[COL_PRINCIPAL_ID]
        IN (/\ row[COL_PRINCIPAL_TYPE] = "GROUP"
            /\ g \in DOMAIN Groups
            /\ ~o.name_fault /\ ~o.validate_fault /\ o.list_fault = 0)
           => /\ row[COL_USERS] = Join(ExpectedMemberNames(g, o.member_faults), CommaSpace)
              /\ row[COL_GROUP_USER_NAME] =
                    (IF "DisplayName" \in DOMAIN Groups[g]
                     THEN Groups[g]["DisplayName"] ELSE EmptyStr)

C6_Witness ==
    \E k1, k2 \in DataRows :
        /\ DataRow(k1)[COL_PRINCIPAL_TYPE] = "GROUP"
        /\ ws_obs[k1] = NoObs
        /\ DataRow(k1)[COL_USERS] = <<"A", "l", ",", " ", "b", "o", ",", " ", "U", "n", "k", "n", "o", "w", "n">>
        /\ DataRow(k2)[COL_PRINCIPAL_TYPE] = "GROUP"
        /\ DataRow(k2)[COL_PRINCIPAL_ID] = Group1
        /\ ws_obs[k2] = [NoObs EXCEPT !.member_faults = {1}]

\* C7: in every row of a USER assignment "Group/User Name" equals "Users in
\* Group / Direct User", and both are the user's resolved name: DisplayName,
\* else UserName, else "Unknown", and "Unknown" when the look-up fails.  The
\* row is written whether or not the look-up fails.
C7_UserRow ==
    /\ \A k \in DataRows :
          LET row == DataRow(k)
          IN row[COL_PRINCIPAL_TYPE] = "USER" =>
               /\ row[COL_GROUP_USER_NAME] = row[COL_USERS]
               /\ row[COL_USERS] = (IF ws_obs[k].user_fault THEN Unknown
                                    ELSE DisplayNameOf(row[COL_PRINCIPAL_ID]))
    /\ \A v \in listed :
          VisitFinished(v[1], v[2]) =>
             \A s \in 1..v[3] :
                ListedAssignments(v[1], v[2])[s]["PrincipalType"] = "USER" =>
                   \E k \in RowsOf(v[1], v[2]) :
                      /\ ws_tag[k][3] = s
                      /\ DataRow(k)[COL_PRINCIPAL_TYPE] = "USER"

C7_Witness ==
    \E k1, k2, k3 \in DataRows :
        /\ DataRow(k1)[COL_PRINCIPAL_ID] = User1
        /\ DataRow(k1)[COL_PRINCIPAL_TYPE] = "USER"
        /\ ws_obs[k1].user_fault
        /\ DataRow(k1)[COL_USERS] = Unknown
        /\ DataRow(k2)[COL_PRINCIPAL_ID] = User2
        /\ DataRow(k2)[COL_USERS] = <<"b", "o">>
        /\ DataRow(k3)[COL_PRINCIPAL_ID] = User1
        /\ DataRow(k3)[COL_PRINCIPAL_TYPE] = "USER"
        /\ DataRow(k3)[COL_USERS] = <<"A", "l">>

LoadDone == fn.op = "load" /\ fn.done

KeyCell(header, cells) ==
    IF IndexOf(header, HEADER_ACCOUNT_ID) <= Len(cells)
    THEN cells[IndexOf(header, HEADER_ACCOUNT_ID)] ELSE EmptyStr

ExpectedField(header, cells, column) ==
    IF column \notin Range(header) THEN NotMapped
    ELSE IF IndexOf(header, column) > Len(cells) THEN NotMapped
    ELSE IF Strip(cells[IndexOf(header, column)]) = EmptyStr THEN NotMapped
    ELSE Strip(cells[IndexOf(header, column)])

\* C8: for a source that has the key column, every data row with a
\* non-blank key is in the returned mapping, with name, type and owner each
\* the trimmed cell, or the sentinel when the cell is missing or blank (also
\* for a row with fewer cells than the header); rows with a blank key are
\* skipped without ending the load.
C8_EveryKeyedRowMapped ==
    (LoadDone /\ fn.csv # NoFile /\ HEADER_ACCOUNT_ID \in Range(fn.csv.header)) =>
        LET header == fn.csv.header
            rows == fn.csv.rows
        IN \A i \in 1..Len(rows) :
             Strip(KeyCell(header, rows[i])) # EmptyStr =>
               /\ Strip(KeyCell(header, rows[i])) \in DOMAIN fn.out
               /\ (\A j \in (i + 1)..Len(rows) :
                      Strip(KeyCell(header, rows[j])) # Strip(KeyCell(header, rows[i])))
                  => fn.out[Strip(KeyCell(header, rows[i]))] =
                       [Name |-> ExpectedField(header, rows[i], HEADER_ACCOUNT_NAME),
                        Type |-> ExpectedField(header, rows[i], HEADER_ACCOUNT_TYPE),
                        Owner |-> ExpectedField(header, rows[i], HEADER_ACCOUNT_OWNER)]

LexLess(t, u) ==
    \/ t[1] < u[1]
    \/ t[1] = u[1] /\ t[2] < u[2]
    \/ t[1] = u[1] /\ t[2] = u[2] /\ t[3] < u[3]

AccountFinished(i) == pc = "exited" \/ ai > i \/ (ai = i /\ pc = "account")

\* the rows written for the account at position i of the input list
Block(i) ==
    LET idx == {k \in DataRows : ws_tag[k][1] = i}
    IN IF idx = {} THEN <<>>
       ELSE SubSeq(ws, 1 + CHOOSE k \in idx : \A m \in idx : k <= m,
                       1 + CHOOSE k \in idx : \A m \in idx : k >= m)

\* C9: the rows follow the header in the order (position of the account in
\* the input list, position of the permission set in its listing, position
\* of the assignment in its listing); an account id typed k times gives k
\* identical row blocks when the service answers every call the same way.
C9_RowOrder ==
    /\ ws # <<>> => (ws[1] = HeaderRow /\ Len(ws) = Len(ws_tag) + 1)
    /\ \A k \in DataRows :
          /\ k < Len(ws_tag) => LexLess(ws_tag[k], ws_tag[k + 1])
          /\ DataRow(k)[COL_ACCOUNT_ID] = account_ids[ws_tag[k][1]]
          /\ DataRow(k)[COL_PS_NAME] =
                PermissionSet(ListedPermissionSets(ws_tag[k][1])[ws_tag[k][2]])["Name"]
          /\ DataRow(k)[COL_PRINCIPAL_ID] =
                ListedAssignments(ws_tag[k][1], ws_tag[k][2])[ws_tag[k][3]]["PrincipalId"]
    /\ \A i, j \in 1..Len(account_ids) :
          (/\ faults = 0
           /\ account_ids[i] = account_ids[j]
           /\ AccountFinished(i) /\ AccountFinished(j))
          => Block(i) = Block(j)

C9_Witness ==
    /\ exit_reason = "Done"
    /\ faults = 0
    /\ account_ids = <<Acct1, Acct1>>
    /\ Len(Block(1)) >= 3
    /\ Block(1) = Block(2)

C10_ExportState ==
    /\ save_attempts <= 1
    /\ save_attempts = 1 =>
          (pc = "exited" /\ exit_status = 0 /\ ai = Len(account_ids))
    /\ file_saved => save_attempts = 1
    /\ exit_reason = "Done" => save_attempts = 1
    /\ (pc = "exited" /\ exit_reason # "Done") => (save_attempts = 0 /\ ~file_saved)

\* C10: the export is attempted once, after every account of the input list
\* has been processed; no row is appended after the attempt; a failed save is
\* not retried and the process still ends with status 0; a run that ends
\* before the last account has been processed writes no file.
C10_ExportOnceAtEnd ==
    /\ []C10_ExportState
    /\ [][save_attempts >= 1 => ws' = ws]_vars
    /\ [][save_attempts' > save_attempts =>
            (ai = Len(account_ids) /\ pc' = "exited" /\ exit_status' = 0)]_vars

C10_Witness ==
    /\ exit_reason = "Done"
    /\ exit_status = 0
    /\ save_attempts = 1
    /\ ~file_saved
    /\ Len(ws) > 1
    /\ Len(account_ids) = MaxAccounts

====
